---- MODULE Spec2Model ----
(***************************************************************************)
(* Model of src/main.py: the module start-up (template check and default   *)
(* template creation), conduct_research (two searches, concatenation,      *)
(* URL de-duplication, limit) and the /research handler research_ui        *)
(* (search, per-result extract / summarize / sleep loop, render, and the   *)
(* handler-level except branch).                                           *)
(***************************************************************************)
EXTENDS Integers, Sequences, FiniteSets, TLC

(* ------------------------------ bounds -------------------------------- *)

\* number of distinct well-formed URL strings the services may return
NumUrls == 3
\* largest number of items one search response carries
MaxHits == 2
\* largest max_results argument tried on conduct_research directly
MaxMR == 2

(* ------------------------- program constants -------------------------- *)

\* def conduct_research(query, max_results: int = 6)
DefaultMaxResults == 6

(* ------------------------------ values -------------------------------- *)

\* A 'url' value that is not hashable (a JSON array or object in the
\* service's response); `url not in seen_urls` raises TypeError on it.
UnhashableUrl == 0

\* the values the 'url' field of a search item can take
UrlValues == {UnhashableUrl} \cup (1..NumUrls)

Hashable(u) == u # UnhashableUrl

\* sequences over S of length at most n
SeqUpTo(S, n) == UNION {[1..k -> S] : k \in 0..n}

\* The items of one service response: item k carries the k-th url of the
\* response; its title is modelled by its rank k, which tells two items of
\* one response with the same url apart.
GoogleItems(us) == [k \in 1..Len(us) |-> [url |-> us[k], title |-> k, source |-> "google"]]

HnItems(us) == [k \in 1..Len(us) |-> [url |-> us[k], title |-> k, source |-> "hackernews"]]

\* google_cse_search: [] when the key or CSE id is missing or when the API
\* call raises (except Exception: return []), else one entry per item.
GoogleOutcomes == {"ok", "nokey", "exception"}

google_cse_search(outcome, us) == IF outcome = "ok" THEN GoogleItems(us) ELSE << >>

\* fetch_hn_search_results: [] when the request raises, else one entry per hit.
HnOutcomes == {"ok", "exception"}

fetch_hn_search_results(outcome, us) == IF outcome = "ok" THEN HnItems(us) ELSE << >>

(* -------------------------- conduct_research -------------------------- *)

\* all_results: google results followed by Hacker News results
AllResults(google_results, hn_results) == google_results \o hn_results

\* The loop `for result in all_results`, from position k on, with the
\* accumulated seen_urls and unique_results.
RECURSIVE DedupFrom(_, _, _, _, _)
DedupFrom(all, k, seen, unique, max_results) ==
    IF k > Len(all) THEN unique
    ELSE IF all[k].url \notin seen /\ Len(unique) < max_results
         THEN DedupFrom(all, k + 1, seen \cup {all[k].url}, Append(unique, all[k]), max_results)
         ELSE DedupFrom(all, k + 1, seen, unique, max_results)

\* Mutant: the membership test on seen_urls is lost.
RECURSIVE DedupNoSeenFrom(_, _, _, _)
DedupNoSeenFrom(all, k, unique, max_results) ==
    IF k > Len(all) THEN unique
    ELSE IF Len(unique) < max_results
         THEN DedupNoSeenFrom(all, k + 1, Append(unique, all[k]), max_results)
         ELSE DedupNoSeenFrom(all, k + 1, unique, max_results)

DedupNoSeen(all, max_results) == DedupNoSeenFrom(all, 1, << >>, max_results)

\* Mutant: the limit test is off by one (<= instead of <).
RECURSIVE DedupOffByOneFrom(_, _, _, _, _)
DedupOffByOneFrom(all, k, seen, unique, max_results) ==
    IF k > Len(all) THEN unique
    ELSE IF all[k].url \notin seen /\ Len(unique) <= max_results
         THEN DedupOffByOneFrom(all, k + 1, seen \cup {all[k].url}, Append(unique, all[k]), max_results)
         ELSE DedupOffByOneFrom(all, k + 1, seen, unique, max_results)

DedupOffByOne(all, max_results) == DedupOffByOneFrom(all, 1, {}, << >>, max_results)

\* seen_urls = set(); unique_results = []; for result in all_results: ...
Dedup(all, max_results) == DedupFrom(all, 1, {}, << >>, max_results)

\* `result['url'] not in seen_urls` is evaluated for every entry of
\* all_results (it is the left operand of `and`), and hashing an unhashable
\* value raises TypeError; nothing in conduct_research catches it.
DedupRaises(all) == \E k \in 1..Len(all) : ~Hashable(all[k].url)

\* conduct_research(query, max_results) on the two search results
conduct_research(google_results, hn_results, max_results) ==
    LET all == AllResults(google_results, hn_results)
    IN  IF DedupRaises(all)
        THEN [raised |-> TRUE, results |-> << >>]
        ELSE [raised |-> FALSE, results |-> Dedup(all, max_results)]

(* ------------------------------- state -------------------------------- *)

VARIABLES
    mod_pc,            \* position of the module-level code
    defined,           \* the name create_default_templates is bound
    index_html,        \* content of templates/index.html
    results_html,      \* content of templates/results.html
    gemini_api_key,    \* GEMINI_API_KEY is set
    pc,                \* position of research_ui
    research_results,  \* research_ui: research_results
    analyzed_results,  \* research_ui: analyzed_results
    i,                 \* research_ui: 1-based position of the for-loop
    content,           \* research_ui: content of the current result
    raised,            \* an exception reached research_ui's except branch
    page,              \* the TemplateResponse returned
    trace,             \* the calls research_ui made, in order (history)
    cr_google,         \* conduct_research called directly: google results
    cr_hn,             \* conduct_research called directly: HN results
    cr_max,            \* conduct_research called directly: max_results
    cr_pc,             \* conduct_research called directly: position
    cr_out             \* conduct_research called directly: outcome

vars == << mod_pc, defined, index_html, results_html,
           gemini_api_key, pc, research_results, analyzed_results, i, content,
           raised, page, trace, cr_google, cr_hn, cr_max, cr_pc, cr_out >>

modVars == << mod_pc, defined, index_html, results_html, gemini_api_key >>

reqVars == << pc, research_results, analyzed_results, i, content, raised, page, trace >>

crVars == << cr_google, cr_hn, cr_max, cr_pc, cr_out >>

FileContents == {"missing", "custom", "default"}

NoPage == [error |-> "unset", results |-> << >>]

NoContent == [success |-> FALSE, text |-> "none", content_type |-> "none"]

NoOut == [raised |-> FALSE, results |-> << >>]

Event(e, k, ok) == [ev |-> e, idx |-> k, ok |-> ok]

\* the handler's locals before a request
ReqInit ==
    /\ pc = "idle"
    /\ research_results = << >>
    /\ analyzed_results = << >>
    /\ i = 0
    /\ content = NoContent
    /\ raised = FALSE
    /\ page = NoPage
    /\ trace = << >>

CrIdle ==
    /\ cr_google = << >>
    /\ cr_hn = << >>
    /\ cr_max = 0
    /\ cr_pc = "unused"
    /\ cr_out = NoOut

\* The process at the moment main.py is loaded: the template files are in
\* any state, the environment has or lacks GEMINI_API_KEY.
Init ==
    /\ mod_pc = "check"
    /\ defined = FALSE
    /\ index_html \in FileContents
    /\ results_html \in FileContents
    /\ gemini_api_key \in BOOLEAN
    /\ ReqInit
    /\ CrIdle

(* ---------------------------- module start-up ------------------------- *)

\* create_default_templates(): write_text on both files, whatever they held
create_default_templates ==
    /\ index_html' = "default"
    /\ results_html' = "default"

\* Lines 53-58: if a template is missing, call create_default_templates().
\* The call looks the name up when it runs: unbound, it raises NameError
\* and the import of the module fails.
TemplateCheck ==
    /\ mod_pc = "check"
    /\ IF index_html = "missing" \/ results_html = "missing"
       THEN IF defined
            THEN /\ create_default_templates
                 /\ mod_pc' = "def"
            ELSE /\ mod_pc' = "crashed"
                 /\ UNCHANGED << index_html, results_html >>
       ELSE /\ mod_pc' = "def"
            /\ UNCHANGED << index_html, results_html >>
    /\ UNCHANGED << defined, gemini_api_key >>
    /\ UNCHANGED reqVars
    /\ UNCHANGED crVars

\* Line 61: the def statement binds the name create_default_templates.
DefineCreateDefaultTemplates ==
    /\ mod_pc = "def"
    /\ defined' = TRUE
    /\ mod_pc' = "call"
    /\ UNCHANGED << index_html, results_html, gemini_api_key >>
    /\ UNCHANGED reqVars
    /\ UNCHANGED crVars

\* Lines 152-153: the unconditional module-level call.
CallCreateDefaultTemplates ==
    /\ mod_pc = "call"
    /\ create_default_templates
    /\ mod_pc' = "routes"
    /\ UNCHANGED << defined, gemini_api_key >>
    /\ UNCHANGED reqVars
    /\ UNCHANGED crVars

\* Lines 459-559: the route decorators run; the app can serve requests.
RegisterRoutes ==
    /\ mod_pc = "routes"
    /\ mod_pc' = "serving"
    /\ UNCHANGED << defined, index_html, results_html, gemini_api_key >>
    /\ UNCHANGED reqVars
    /\ UNCHANGED crVars

(* ----------------------- the pipeline's functions --------------------- *)

\* extract_research_content: any exception of the request or of the
\* parsing is caught and gives success = False; otherwise the text is
\* short (under 100 characters) or long.
ExtractOutcomes == {"exception", "short", "long"}

extract_research_content(outcome) ==
    IF outcome = "exception"
    THEN [success |-> FALSE, text |-> "Unable to extract content", content_type |-> "error"]
    ELSE [success |-> TRUE, text |-> outcome, content_type |-> "article"]

\* generate_research_summary: the two early returns, the except branch,
\* and the parsed answer of the model.
LlmOutcomes == {"ok", "exception"}

generate_research_summary(text, key, outcome) ==
    IF text # "long"
    THEN [summary |-> "Insufficient content", credibility_score |-> "zero"]
    ELSE IF ~key
    THEN [summary |-> "API configuration required", credibility_score |-> "zero"]
    ELSE IF outcome = "exception"
    THEN [summary |-> "Analysis failed", credibility_score |-> "zero"]
    ELSE [summary |-> "parsed", credibility_score |-> "parsed"]

(* ------------------------------ research_ui --------------------------- *)

QueryKinds == {"short", "valid"}

\* Lines 479-490: the handler is entered; a query shorter than two
\* characters is answered at once with the error page.
Receive ==
    /\ mod_pc = "serving"
    /\ pc = "idle"
    /\ \E q \in QueryKinds :
          IF q = "short"
          THEN /\ page' = [error |-> "invalid_query", results |-> << >>]
               /\ trace' = << Event("render", 0, TRUE) >>
               /\ pc' = "done"
          ELSE /\ pc' = "search"
               /\ UNCHANGED << page, trace >>
    /\ UNCHANGED << research_results, analyzed_results, i, content, raised >>
    /\ UNCHANGED modVars
    /\ UNCHANGED crVars

\* Line 493: research_results = conduct_research(query); an exception of
\* conduct_research goes to the except branch of research_ui.
Search ==
    /\ pc = "search"
    /\ \E go \in GoogleOutcomes, ho \in HnOutcomes,
          gu \in SeqUpTo(UrlValues, MaxHits), hu \in SeqUpTo(UrlValues, MaxHits) :
          LET r == conduct_research(google_cse_search(go, gu),
                                    fetch_hn_search_results(ho, hu),
                                    DefaultMaxResults)
          IN  /\ trace' = trace \o << Event("google", 0, TRUE), Event("hn", 0, TRUE) >>
              /\ IF r.raised
                 THEN /\ raised' = TRUE
                      /\ pc' = "except"
                      /\ UNCHANGED << research_results, i >>
                 ELSE /\ research_results' = r.results
                      /\ i' = 1
                      /\ pc' = "loop"
                      /\ UNCHANGED raised
    /\ UNCHANGED << analyzed_results, content, page >>
    /\ UNCHANGED modVars
    /\ UNCHANGED crVars

\* Mutant: a failed extraction leaves the loop (break instead of continue).
ExtractBreak ==
    /\ pc = "loop"
    /\ i <= Len(research_results)
    /\ \E o \in ExtractOutcomes :
          LET c == extract_research_content(o)
          IN  /\ content' = c
              /\ trace' = Append(trace, Event("fetch", i, c.success))
              /\ IF ~c.success
                 THEN /\ i' = Len(research_results) + 1
                      /\ pc' = "loop"
                 ELSE /\ pc' = "summarize"
                      /\ UNCHANGED i
    /\ UNCHANGED << research_results, analyzed_results, raised, page >>
    /\ UNCHANGED modVars
    /\ UNCHANGED crVars

\* Mutant: a failed extraction falls through to the sleep (no continue).
ExtractNoContinue ==
    /\ pc = "loop"
    /\ i <= Len(research_results)
    /\ \E o \in ExtractOutcomes :
          LET c == extract_research_content(o)
          IN  /\ content' = c
              /\ trace' = Append(trace, Event("fetch", i, c.success))
              /\ pc' = IF c.success THEN "summarize" ELSE "sleep"
    /\ UNCHANGED << research_results, analyzed_results, i, raised, page >>
    /\ UNCHANGED modVars
    /\ UNCHANGED crVars

\* Lines 496-504: the next result's page is fetched; on failure the
\* iteration ends with `continue`.
Extract ==
    /\ pc = "loop"
    /\ i <= Len(research_results)
    /\ \E o \in ExtractOutcomes :
          LET c == extract_research_content(o)
          IN  /\ content' = c
              /\ trace' = Append(trace, Event("fetch", i, c.success))
              /\ IF ~c.success
                 THEN /\ i' = i + 1
                      /\ pc' = "loop"
                 ELSE /\ pc' = "summarize"
                      /\ UNCHANGED i
    /\ UNCHANGED << research_results, analyzed_results, raised, page >>
    /\ UNCHANGED modVars
    /\ UNCHANGED crVars

\* Lines 506-520: the summary is generated and the analysed result appended.
Summarize ==
    /\ pc = "summarize"
    /\ \E o \in LlmOutcomes :
          LET a == generate_research_summary(content.text, gemini_api_key, o)
          IN  analyzed_results' = Append(analyzed_results,
                  [url |-> research_results[i].url,
                   source |-> research_results[i].source,
                   summary |-> a.summary,
                   credibility_score |-> a.credibility_score])
    /\ trace' = Append(trace, Event("summarize", i, TRUE))
    /\ pc' = "sleep"
    /\ UNCHANGED << research_results, i, content, raised, page >>
    /\ UNCHANGED modVars
    /\ UNCHANGED crVars

\* Line 522: time.sleep(1.2), the last statement of the loop body.
Sleep ==
    /\ pc = "sleep"
    /\ trace' = Append(trace, Event("sleep", i, TRUE))
    /\ i' = i + 1
    /\ pc' = "loop"
    /\ UNCHANGED << research_results, analyzed_results, content, raised, page >>
    /\ UNCHANGED modVars
    /\ UNCHANGED crVars

\* Mutant: the loop stops one result early.
RenderEarly ==
    /\ pc = "loop"
    /\ i >= Len(research_results)
    /\ page' = [error |-> "none", results |-> analyzed_results]
    /\ trace' = Append(trace, Event("render", 0, TRUE))
    /\ pc' = "done"
    /\ UNCHANGED << research_results, analyzed_results, i, content, raised >>
    /\ UNCHANGED modVars
    /\ UNCHANGED crVars

\* Lines 524-532: the loop is exhausted; the results page is rendered.
Render ==
    /\ pc = "loop"
    /\ i > Len(research_results)
    /\ page' = [error |-> "none", results |-> analyzed_results]
    /\ trace' = Append(trace, Event("render", 0, TRUE))
    /\ pc' = "done"
    /\ UNCHANGED << research_results, analyzed_results, i, content, raised >>
    /\ UNCHANGED modVars
    /\ UNCHANGED crVars

\* Mutant: the except branch renders what was analysed, without an error.
ExceptNoError ==
    /\ pc = "except"
    /\ page' = [error |-> "none", results |-> analyzed_results]
    /\ trace' = Append(trace, Event("render", 0, TRUE))
    /\ pc' = "done"
    /\ UNCHANGED << research_results, analyzed_results, i, content, raised >>
    /\ UNCHANGED modVars
    /\ UNCHANGED crVars

\* Lines 534-544: except Exception: the error page, with results = [].
Except ==
    /\ pc = "except"
    /\ page' = [error |-> "research_error", results |-> << >>]
    /\ trace' = Append(trace, Event("render", 0, TRUE))
    /\ pc' = "done"
    /\ UNCHANGED << research_results, analyzed_results, i, content, raised >>
    /\ UNCHANGED modVars
    /\ UNCHANGED crVars

\* The response is sent; the handler's locals are gone and the next
\* request starts afresh.
Return ==
    /\ pc = "done"
    /\ pc' = "idle"
    /\ research_results' = << >>
    /\ analyzed_results' = << >>
    /\ i' = 0
    /\ content' = NoContent
    /\ raised' = FALSE
    /\ page' = NoPage
    /\ trace' = << >>
    /\ UNCHANGED modVars
    /\ UNCHANGED crVars

Next ==
    \/ TemplateCheck
    \/ DefineCreateDefaultTemplates
    \/ CallCreateDefaultTemplates
    \/ RegisterRoutes
    \/ Receive
    \/ Search
    \/ Extract
    \/ Summarize
    \/ Sleep
    \/ Render
    \/ Except
    \/ Return

Spec == Init /\ [][Next]_vars

(* ---------------- conduct_research called on its own ------------------ *)

\* conduct_research is about to be called on any two search results and
\* any max_results.
CrInit ==
    /\ mod_pc = "serving"
    /\ defined = TRUE
    /\ index_html = "default"
    /\ results_html = "default"
    /\ gemini_api_key = TRUE
    /\ ReqInit
    /\ \E gu \in SeqUpTo(UrlValues, MaxHits) : cr_google = GoogleItems(gu)
    /\ \E hu \in SeqUpTo(UrlValues, MaxHits) : cr_hn = HnItems(hu)
    /\ cr_max \in 0..MaxMR
    /\ cr_pc = "call"
    /\ cr_out = NoOut

CrCall ==
    /\ cr_pc = "call"
    /\ cr_out' = conduct_research(cr_google, cr_hn, cr_max)
    /\ cr_pc' = "returned"
    /\ UNCHANGED << cr_google, cr_hn, cr_max >>
    /\ UNCHANGED modVars
    /\ UNCHANGED reqVars

CrNext == CrCall

SpecCR == CrInit /\ [][CrNext]_vars

(* ------------------------------ helpers ------------------------------- *)

\* positions of the trace that hold an event of kind e
Pos(e) == {t \in 1..Len(trace) : trace[t].ev = e}

\* positions of the trace that hold an event of kind e for result k
PosOf(e, k) == {t \in Pos(e) : trace[t].idx = k}

\* the element of the finite set S of integers with exactly n smaller ones
Nth(S, n) == CHOOSE k \in S : Cardinality({j \in S : j < k}) = n

\* results of the current request whose extraction succeeded
Succeeded == {k \in 1..Len(research_results) : \E t \in PosOf("fetch", k) : trace[t].ok}

\* positions of all_results that hold the first occurrence of their url
FirstOcc(all) == {k \in 1..Len(all) : \A j \in 1..(k - 1) : all[j].url # all[k].url}

\* the first m of them
FirstM(all, m) == {k \in FirstOcc(all) : Cardinality({j \in FirstOcc(all) : j < k}) < m}

CrAll == AllResults(cr_google, cr_hn)

CrReturned == cr_pc = "returned" /\ ~cr_out.raised

(* ------------------------------- claims ------------------------------- *)

\* C1: the list conduct_research returns holds no two entries with the same
\* 'url', and every entry of it is the first entry of the combined list
\* (Google results, then Hacker News results) that carries its url.
C1_DedupByUrl ==
    CrReturned =>
        LET r == cr_out.results
        IN  /\ \A a, b \in 1..Len(r) : a # b => r[a].url # r[b].url
            /\ \A a \in 1..Len(r) : \E k \in FirstOcc(CrAll) : CrAll[k] = r[a]

\* C1 witness: conduct_research returned a list that keeps a url which the
\* combined list carried twice.
C1_Witness ==
    /\ CrReturned
    /\ \E a \in 1..Len(cr_out.results) : \E j, k \in 1..Len(CrAll) :
          j # k /\ CrAll[j].url = cr_out.results[a].url /\ CrAll[k].url = cr_out.results[a].url

\* C6: conduct_research returns exactly the first max_results entries of the
\* order-preserving de-duplication by url of (Google results followed by
\* Hacker News results): at most max_results entries, kept Google entries
\* before kept Hacker News entries, and a Hacker News entry whose url is
\* among the Google results is dropped.
C6_FirstMaxResultsOfDedup ==
    CrReturned =>
        LET r == cr_out.results
            keep == FirstM(CrAll, cr_max)
        IN  /\ Len(r) = Cardinality(keep)
            /\ \A a \in 1..Len(r) : r[a] = CrAll[Nth(keep, a - 1)]
            /\ Len(r) <= cr_max
            /\ \A a, b \in 1..Len(r) :
                  a < b => ~(r[a].source = "hackernews" /\ r[b].source = "google")
            /\ \A k \in 1..Len(cr_hn) :
                  (\E g \in 1..Len(cr_google) : cr_google[g].url = cr_hn[k].url)
                      => \A a \in 1..Len(r) : r[a] # cr_hn[k]

\* C6 witness: conduct_research returned a non-empty list that the limit
\* cut (more distinct urls than max_results), from inputs in which a Hacker
\* News entry repeated a Google url.
C6_Witness ==
    /\ CrReturned
    /\ Len(cr_out.results) >= 1
    /\ Cardinality(FirstOcc(CrAll)) > cr_max
    /\ \E k \in 1..Len(cr_hn) : \E g \in 1..Len(cr_google) : cr_google[g].url = cr_hn[k].url

\* C2: when the loop of /research has run, the rendered results are exactly
\* the results whose extraction succeeded, in their original order; a result
\* whose extraction failed is not summarized, and every result, also those
\* after a failure, was fetched.
C2_LogAndSkip ==
    (pc = "done" /\ page.error = "none") =>
        /\ Len(page.results) = Cardinality(Succeeded)
        /\ \A a \in 1..Len(page.results) :
              /\ page.results[a].url = research_results[Nth(Succeeded, a - 1)].url
              /\ page.results[a].source = research_results[Nth(Succeeded, a - 1)].source
        /\ \A k \in 1..Len(research_results) :
              /\ PosOf("fetch", k) # {}
              /\ (PosOf("summarize", k) # {}) <=> (k \in Succeeded)

\* C2 witness: a page rendered after an extraction failed and a later one
\* succeeded.
C2_Witness ==
    /\ pc = "done"
    /\ page.error = "none"
    /\ \E k \in Succeeded : \E j \in 1..(k - 1) : j \notin Succeeded

\* C3: search, scrape, summarize, render. Both searches come before any
\* fetch; no result is fetched twice and, once the page is rendered from the
\* loop, every result was fetched exactly once; a result's summarization
\* comes after its own fetch and before the next result's fetch; the render
\* is the last call.
C3_PipelineOrder ==
    LET F == Pos("fetch")
        S == Pos("summarize")
        n == Len(research_results)
    IN  /\ F # {} => \E g \in Pos("google"), h \in Pos("hn") : g < h /\ \A t \in F : h < t
        /\ \A t \in F : trace[t].idx \in 1..n
        /\ \A t, u \in F : t < u => trace[t].idx < trace[u].idx
        /\ \A s \in S :
              /\ \E t \in F : trace[t].idx = trace[s].idx /\ t < s
              /\ \A u \in F : trace[u].idx > trace[s].idx => s < u
        /\ \A t, u \in F :
              (t < u /\ trace[t].ok)
                  => \E s \in S : trace[s].idx = trace[t].idx /\ t < s /\ s < u
        /\ \A r \in Pos("render") : r = Len(trace)
        /\ (pc = "done" /\ page.error = "none") =>
              /\ Pos("render") # {}
              /\ \A k \in 1..n :
                    /\ Cardinality({t \in F : trace[t].idx = k}) = 1
                    /\ k \in Succeeded => \E s \in S : trace[s].idx = k

\* C3 witness: a page rendered from at least two results, one of them
\* summarized.
C3_Witness ==
    /\ pc = "done"
    /\ page.error = "none"
    /\ Len(research_results) >= 2
    /\ Pos("summarize") # {}

\* sleeps (positions S) executed between trace positions t and u
SleepsBetween(S, t, u) == Cardinality({s \in S : t < s /\ s < u})

\* t and u are two fetches (positions F) with no fetch in between
ConsecutiveFetches(F, t, u) == t < u /\ \A v \in F : ~(t < v /\ v < u)

\* C4 as stated: between the fetches of two consecutive results the sleep
\* is executed exactly once.
C4_SleepExactlyOnce ==
    LET F == Pos("fetch")
        S == Pos("sleep")
    IN  \A t, u \in F : ConsecutiveFetches(F, t, u) => SleepsBetween(S, t, u) = 1

\* C4 amended: between the fetches of two consecutive results the sleep is
\* executed exactly once when the first result's extraction succeeded, and
\* not at all when it failed (the `continue` skips the sleep).
C4_SleepOnlyAfterSuccess ==
    LET F == Pos("fetch")
        S == Pos("sleep")
    IN  \A t, u \in F :
            ConsecutiveFetches(F, t, u)
                => SleepsBetween(S, t, u) = (IF trace[t].ok THEN 1 ELSE 0)

\* C4 witness: a request in which a failed fetch and a successful fetch were
\* each followed by the next result's fetch.
C4_Witness ==
    LET F == Pos("fetch")
    IN  /\ \E t, u \in F : ConsecutiveFetches(F, t, u) /\ trace[t].ok
        /\ \E t, u \in F : ConsecutiveFetches(F, t, u) /\ ~trace[t].ok

\* C5: the handler ends by returning a page whatever the search, fetch and
\* LLM steps did: a finished request has a rendered page, an exception that
\* reached the handler's except branch gives the error page with an empty
\* results list, and every step of a request in progress has a successor.
C5_NeverPropagates ==
    /\ pc = "done" =>
          /\ page.error \in {"none", "invalid_query", "research_error"}
          /\ Pos("render") = {Len(trace)}
    /\ (pc = "done" /\ raised) => (page.error = "research_error" /\ page.results = << >>)
    /\ pc = "except" => raised
    /\ pc \notin {"idle", "done"} => ENABLED Next

\* C5 witness: a request answered after conduct_research raised.
C5_Witness ==
    /\ pc = "done"
    /\ raised
    /\ page.error = "research_error"

\* C7: existing templates are never overwritten: no step of start-up
\* changes the content of templates that both exist.
C7_ExistingTemplatesKept ==
    [][(index_html # "missing" /\ results_html # "missing")
          => (index_html' = index_html /\ results_html' = results_html)]_vars

\* C8: if a template is missing at load time, start-up does not fail: it
\* goes on to register the routes with both templates present. (The failed
\* import leaves the files as they were, so a template is still missing.)
C8_StartupWithMissingTemplates ==
    /\ mod_pc # "crashed"
    /\ mod_pc = "serving" => (index_html # "missing" /\ results_html # "missing")
====
